---- MODULE Spec2Model ----
(***************************************************************************)
(* Worktree lifecycle registry of claude-flow-kit: the scripts             *)
(* worktree_create.py, worktree_merge.py, worktree_cleanup.py,             *)
(* worktree_check_pr_status.py and worktree_poll_pr.py, modelled over the  *)
(* registry file they share and the external tools they call.              *)
(*                                                                         *)
(* External tools are the environment: each call of git, gh or             *)
(* docker-compose gets its outcome by a nondeterministic choice.  git is   *)
(* taken to be installed (every script needs it); gh and docker-compose    *)
(* may be missing, which Python reports as FileNotFoundError.  An          *)
(* exception no handler catches ends the interpreter with exit status 1.   *)
(***************************************************************************)
EXTENDS Integers, Sequences, FiniteSets, TLC

\* ---------------------------------------------------------------- bounds
MaxEntries == 2          \* registry entries under Spec
DeepMaxEntries == 1      \* registry entries under SpecCleanup
PollMaxEntries == 1      \* registry entries under SpecPR
MaxPolls == 3            \* status checks of one poll-pr run
MaxIdEntries == 10       \* registry entries under SpecId
MaxIdCalls == 2          \* calls of generate_worktree_id on one registry
MaxProcs == 2            \* invocations that overlap under SpecRace
MaxRaceOps == 4      \* invocations started under SpecRace
MaxKeys == 2         \* keys an agents or settings map of a config fragment may hold

\* ------------------------------------------------------- program constants
DefaultInterval == 5
SecondsPerMinute == 60

\* ------------------------------------------------------------ input sets
AlnumChars == {"a", "b", "1"}
FeatureNames == { <<"a">>, <<"b", "-">>, <<"-">>, <<"a", "!">> }
Branches == {"main", "develop"}
PRNumbers == {7}
PRStates == {"MERGED", "OPEN", "CLOSED", "DRAFT"}
GhFailures == {"nonzero_exit", "cannot_start", "bad_json", "no_state_field"}
GhResponses == [kind : {"state"}, state : PRStates]
               \cup [kind : GhFailures, state : {""}]
NoGh == [kind |-> "none", state |-> ""]
Intervals == {-1, 1, DefaultInterval}

VARIABLES
    registry_exists,   \* REGISTRY_FILE.exists()
    registry,          \* the JSON document of REGISTRY_FILE: id -> record
    registry_corrupt,  \* REGISTRY_FILE holds something json.load rejects
    dirs,              \* feature names whose worktree directory exists
    branches,          \* feature names whose local feature branch exists
    clock,             \* datetime.now(), as a logical time
    last,              \* the latest finished invocation and what it did
    pc,                \* position of the poll-pr run
    poll_id,           \* its worktree_id argument
    interval_minutes,  \* its --interval argument
    interval_seconds,  \* its interval_seconds
    poll_count,        \* its poll_count
    results,           \* return codes of its status checks, in order
    sleeps,            \* lengths of its completed time.sleep calls, in order
    cleanup_calls,     \* times it invoked worktree_cleanup.py
    checks_after_cleanup, \* status checks it made after invoking cleanup
    poll_exit,         \* its exit status, -1 while it runs
    inflight,          \* per overlapping invocation: what it loaded and is
                       \* about to save
    install            \* a run of install.py: what it was given and the
                       \* config it has built

fsvars == <<registry_exists, registry, registry_corrupt, dirs, branches, clock>>
pollvars == <<pc, poll_id, interval_minutes, interval_seconds, poll_count, results, sleeps,
              cleanup_calls, checks_after_cleanup, poll_exit>>
racevars == <<inflight>>
instvars == <<install>>
vars == <<registry_exists, registry, registry_corrupt, dirs, branches, clock,
          inflight, install, last, pc, poll_id,
          interval_minutes, interval_seconds, poll_count, results, sleeps, cleanup_calls,
          checks_after_cleanup, poll_exit>>

\* no run of install.py
NotInstalled == [pc |-> "none"]

\* the invocations that may overlap, and one that has nothing loaded
Procs == 1..MaxProcs
Idle == [op |-> "idle", id |-> "", name |-> <<>>, doc |-> [k \in {} |-> 0]]

\* ------------------------------------------------------ registry helpers
EmptyRegistry == [k \in {} |-> 0]

\* f"{counter}": the number without the zero padding
Pad2_NoPadding(n) == ToString(n)

\* f"{counter:02d}"
Pad2(n) == IF n < 10 THEN "0" \o ToString(n) ELSE ToString(n)

\* generate_worktree_id counting the active records only
generate_worktree_id_ActiveOnly(reg) ==
    "worktree-" \o
    Pad2(Cardinality({k \in DOMAIN reg : reg[k].status = "active"}) + 1)

\* generate_worktree_id
generate_worktree_id(reg) == "worktree-" \o Pad2(Cardinality(DOMAIN reg) + 1)

\* registry[worktree_id] = worktree_info
Put(reg, k, v) == [x \in (DOMAIN reg) \cup {k} |-> IF x = k THEN v ELSE reg[x]]

\* load_registry that starts from an empty mapping whatever the file holds
load_registry_Fresh(exists, reg) == EmptyRegistry

\* load_registry of worktree_create.py: a missing file is an empty mapping
load_registry(exists, reg) == IF exists THEN reg ELSE EmptyRegistry

\* json.load(f) of load_registry raises json.JSONDecodeError, which no
\* script catches
LoadRaises == registry_exists /\ registry_corrupt

\* f"feature/{feature_name}"
FeatureBranch(name) == <<"feature/">> \o name

\* worktrees_dir / feature_name
WorktreePath(name) == <<"worktrees/">> \o name

\* str.replace(ch, ''): drop every occurrence of ch
Replace(s, ch) == SelectSeq(s, LAMBDA c : c # ch)

\* str.isalnum(): non-empty and every character alphanumeric
IsAlnum(s) == Len(s) > 0 /\ \A i \in 1..Len(s) : s[i] \in AlnumChars

\* feature_name.replace('-', '').replace('_', '').isalnum()
ValidFeatureName(name) == IsAlnum(Replace(Replace(name, "-"), "_"))

HasPR(rec) == "pr" \in DOMAIN rec

\* the ids an operator may pass on the command line: those a registry of
\* up to maxN entries holds, and one it does not
IdInputs(maxN) == { "worktree-" \o Pad2(n) : n \in 1..(maxN + 1) }

Range(s) == { s[i] : i \in 1..Len(s) }

\* what an invocation leaves in `last`
Done(op, id, name, base, exit, cmds, failed, gh, pre_exists, pre) ==
    [op |-> op, id |-> id, name |-> name, base |-> base, exit |-> exit,
     cmds |-> cmds, failed |-> failed, gh |-> gh,
     pre_exists |-> pre_exists, pre |-> pre]

\* ----------------------------------------------------------------- create
\* worktree_info with the base branch taken to be main
NewRecord_BaseMain(id, name, base, now) ==
    [id |-> id, feature_name |-> name, path |-> WorktreePath(name),
     branch |-> FeatureBranch(name), base_branch |-> "main",
     created |-> now, status |-> "active"]

\* worktree_info with a pr sub-record written by create
NewRecord_WithPR(id, name, base, now) ==
    [id |-> id, feature_name |-> name, path |-> WorktreePath(name),
     branch |-> FeatureBranch(name), base_branch |-> base,
     created |-> now, status |-> "active",
     pr |-> [number |-> 0, title |-> "PR"]]

\* worktree_info whose id field is not the id the record is stored under
NewRecord_StaleId(id, name, base, now) ==
    [id |-> "worktree-00", feature_name |-> name, path |-> WorktreePath(name),
     branch |-> FeatureBranch(name), base_branch |-> base,
     created |-> now, status |-> "active"]

\* worktree_info of create_worktree
NewRecord(id, name, base, now) ==
    [id |-> id, feature_name |-> name, path |-> WorktreePath(name),
     branch |-> FeatureBranch(name), base_branch |-> base,
     created |-> now, status |-> "active"]

CreateOutcomes == {"ok", "revparse_fails", "add_fails"}

\* create_worktree without the test worktree_path.exists()
Create_NoPathCheck(name, base, git, maxN) ==
    /\ Cardinality(DOMAIN registry) < maxN
    /\ LET pre == registry
           pe  == registry_exists
           fin(exit, cmds, failed) ==
               Done("create", "", name, base, exit, cmds, failed, NoGh, pe, pre)
       IN
       IF ~ValidFeatureName(name) THEN
            /\ last' = fin(1, <<>>, {})
            /\ UNCHANGED fsvars
       ELSE IF git = "revparse_fails" THEN
            \* check=True raises CalledProcessError, nothing catches it:
            \* the interpreter exits 1
            /\ last' = fin(1, <<"git rev-parse">>, {"git rev-parse"})
            /\ UNCHANGED fsvars
       ELSE IF git = "add_fails" \/ name \in branches THEN
            \* `git worktree add -b` refuses a branch that exists
            /\ last' = fin(1, <<"git rev-parse", "git worktree add">>,
                           {"git worktree add"})
            /\ UNCHANGED fsvars
       ELSE IF LoadRaises THEN
            \* the worktree is there; the exception ends the run with 1
            /\ dirs' = dirs \cup {name}
            /\ branches' = branches \cup {name}
            /\ last' = fin(1, <<"git rev-parse", "git worktree add">>, {})
            /\ UNCHANGED <<registry_exists, registry, registry_corrupt, clock>>
       ELSE
            LET reg == load_registry(registry_exists, registry)
                worktree_id == generate_worktree_id(reg)
            IN  /\ registry' = Put(reg, worktree_id,
                                   NewRecord(worktree_id, name, base, clock))
                /\ registry_exists' = TRUE
                /\ dirs' = dirs \cup {name}
                /\ branches' = branches \cup {name}
                /\ clock' = clock + 1
                /\ UNCHANGED registry_corrupt
                /\ last' = [fin(0, <<"git rev-parse", "git worktree add">>, {})
                               EXCEPT !.id = worktree_id]
    /\ UNCHANGED <<pollvars, racevars, instvars>>

\* main of worktree_create.py with create_worktree inlined.
\*   base  what `git rev-parse --abbrev-ref HEAD` prints, "" if it was not
\*         run or failed
\*   git   which of the git commands fails, if any
Create(name, base, git, maxN) ==
    /\ Cardinality(DOMAIN registry) < maxN
    /\ LET pre == registry
           pe  == registry_exists
           fin(exit, cmds, failed) ==
               Done("create", "", name, base, exit, cmds, failed, NoGh, pe, pre)
       IN
       IF ~ValidFeatureName(name) THEN
            /\ last' = fin(1, <<>>, {})
            /\ UNCHANGED fsvars
       ELSE IF git = "revparse_fails" THEN
            \* check=True raises CalledProcessError, nothing catches it:
            \* the interpreter exits 1
            /\ last' = fin(1, <<"git rev-parse">>, {"git rev-parse"})
            /\ UNCHANGED fsvars
       ELSE IF name \in dirs THEN
            /\ last' = fin(1, <<"git rev-parse">>, {})
            /\ UNCHANGED fsvars
       ELSE IF git = "add_fails" \/ name \in branches THEN
            \* `git worktree add -b` refuses a branch that exists
            /\ last' = fin(1, <<"git rev-parse", "git worktree add">>,
                           {"git worktree add"})
            /\ UNCHANGED fsvars
       ELSE IF LoadRaises THEN
            \* the worktree is there; the exception ends the run with 1
            /\ dirs' = dirs \cup {name}
            /\ branches' = branches \cup {name}
            /\ last' = fin(1, <<"git rev-parse", "git worktree add">>, {})
            /\ UNCHANGED <<registry_exists, registry, registry_corrupt, clock>>
       ELSE
            LET reg == load_registry(registry_exists, registry)
                worktree_id == generate_worktree_id(reg)
            IN  /\ registry' = Put(reg, worktree_id,
                                   NewRecord(worktree_id, name, base, clock))
                /\ registry_exists' = TRUE
                /\ dirs' = dirs \cup {name}
                /\ branches' = branches \cup {name}
                /\ clock' = clock + 1
                /\ UNCHANGED registry_corrupt
                /\ last' = [fin(0, <<"git rev-parse", "git worktree add">>, {})
                               EXCEPT !.id = worktree_id]
    /\ UNCHANGED <<pollvars, racevars, instvars>>

\* ------------------------------------------------------------------ merge
MergeSteps == {"git checkout", "git pull", "git merge", "git push"}

\* merge_worktree that takes a failed `git merge` for a warning
MergeRun_IgnoreConflict(id, fails) ==
    LET reg == load_registry(registry_exists, registry)
        stop(exit, cmds) ==
            [exit |-> exit, cmds |-> cmds, saved |-> FALSE, registry |-> registry]
    IN
    IF LoadRaises THEN stop(1, <<>>)
    ELSE IF reg = EmptyRegistry THEN stop(1, <<>>)
    ELSE IF id \notin DOMAIN reg THEN stop(1, <<>>)
    ELSE IF "git checkout" \in fails THEN stop(1, <<"git checkout">>)
    ELSE [exit |-> 0,
          cmds |-> <<"git checkout", "git pull", "git merge", "git push">>,
          saved |-> TRUE,
          registry |-> Put(reg, id, [reg[id] EXCEPT !.status = "merged"])]

\* merge_worktree that gives up when the push fails
MergeRun_PushFatal(id, fails) ==
    LET reg == load_registry(registry_exists, registry)
        stop(exit, cmds) ==
            [exit |-> exit, cmds |-> cmds, saved |-> FALSE, registry |-> registry]
    IN
    IF LoadRaises THEN stop(1, <<>>)
    ELSE IF reg = EmptyRegistry THEN stop(1, <<>>)
    ELSE IF id \notin DOMAIN reg THEN stop(1, <<>>)
    ELSE IF "git checkout" \in fails THEN stop(1, <<"git checkout">>)
    ELSE IF "git merge" \in fails
         THEN stop(1, <<"git checkout", "git pull", "git merge">>)
    ELSE IF "git push" \in fails
         THEN stop(1, <<"git checkout", "git pull", "git merge", "git push">>)
    ELSE [exit |-> 0,
          cmds |-> <<"git checkout", "git pull", "git merge", "git push">>,
          saved |-> TRUE,
          registry |-> Put(reg, id, [reg[id] EXCEPT !.status = "merged"])]

\* merge_worktree that reports success for an id it does not find
MergeRun_NotFoundReturns(id, fails) ==
    LET reg == load_registry(registry_exists, registry)
        stop(exit, cmds) ==
            [exit |-> exit, cmds |-> cmds, saved |-> FALSE, registry |-> registry]
    IN
    IF LoadRaises THEN stop(1, <<>>)
    ELSE IF reg = EmptyRegistry THEN stop(1, <<>>)
    ELSE IF id \notin DOMAIN reg THEN stop(0, <<>>)
    ELSE IF "git checkout" \in fails THEN stop(1, <<"git checkout">>)
    ELSE IF "git merge" \in fails
         THEN stop(1, <<"git checkout", "git pull", "git merge">>)
    ELSE [exit |-> 0,
          cmds |-> <<"git checkout", "git pull", "git merge", "git push">>,
          saved |-> TRUE,
          registry |-> Put(reg, id, [reg[id] EXCEPT !.status = "merged"])]

\* merge_worktree that stores the branch it merged into as base_branch anew
MergeRun_RederivesBase(id, fails) ==
    LET reg == load_registry(registry_exists, registry)
        stop(exit, cmds) ==
            [exit |-> exit, cmds |-> cmds, saved |-> FALSE, registry |-> registry]
    IN
    IF LoadRaises THEN stop(1, <<>>)
    ELSE IF reg = EmptyRegistry THEN stop(1, <<>>)
    ELSE IF id \notin DOMAIN reg THEN stop(1, <<>>)
    ELSE IF "git checkout" \in fails THEN stop(1, <<"git checkout">>)
    ELSE IF "git merge" \in fails
         THEN stop(1, <<"git checkout", "git pull", "git merge">>)
    ELSE [exit |-> 0,
          cmds |-> <<"git checkout", "git pull", "git merge", "git push">>,
          saved |-> TRUE,
          registry |-> Put(reg, id, [reg[id] EXCEPT !.status = "merged",
                                                    !.base_branch = "main"])]

\* merge_worktree that takes a failed `git checkout` for a warning
MergeRun_CheckoutWarning(id, fails) ==
    LET reg == load_registry(registry_exists, registry)
        stop(exit, cmds) ==
            [exit |-> exit, cmds |-> cmds, saved |-> FALSE, registry |-> registry]
    IN
    IF LoadRaises THEN stop(1, <<>>)
    ELSE IF reg = EmptyRegistry THEN stop(1, <<>>)
    ELSE IF id \notin DOMAIN reg THEN stop(1, <<>>)
    ELSE IF "git merge" \in fails
         THEN stop(1, <<"git checkout", "git pull", "git merge">>)
    ELSE [exit |-> 0,
          cmds |-> <<"git checkout", "git pull", "git merge", "git push">>,
          saved |-> TRUE,
          registry |-> Put(reg, id, [reg[id] EXCEPT !.status = "merged"])]

\* merge_worktree: what it runs, how it exits and the registry it leaves.
\*   fails  the git commands that exit non-zero if they are run
MergeRun(id, fails) ==
    LET reg == load_registry(registry_exists, registry)
        stop(exit, cmds) ==
            [exit |-> exit, cmds |-> cmds, saved |-> FALSE, registry |-> registry]
    IN
    IF LoadRaises THEN stop(1, <<>>)
    ELSE IF reg = EmptyRegistry THEN stop(1, <<>>)
    ELSE IF id \notin DOMAIN reg THEN stop(1, <<>>)
    ELSE IF "git checkout" \in fails THEN stop(1, <<"git checkout">>)
    ELSE IF "git merge" \in fails
         THEN stop(1, <<"git checkout", "git pull", "git merge">>)
    ELSE [exit |-> 0,
          cmds |-> <<"git checkout", "git pull", "git merge", "git push">>,
          saved |-> TRUE,
          registry |-> Put(reg, id, [reg[id] EXCEPT !.status = "merged"])]

\* every way the git commands of merge can go
AllMergeCases == SUBSET MergeSteps

\* five of them: nothing fails, the checkout fails, the merge fails, the
\* remote cannot be reached, the remote cannot be reached and the merge
\* fails
SomeMergeCases ==
    { {}, {"git checkout"}, {"git merge"}, {"git pull", "git push"},
      {"git pull", "git merge"} }

\* the cases of a family that differ in what merge_worktree sees and that
\* git can produce: `git merge` of a branch that does not exist fails
MergeCases(id, family) ==
    { f \in family :
        LET r == MergeRun(id, f)
        IN  /\ f \subseteq Range(r.cmds)
            /\ ("git merge" \in Range(r.cmds) /\ "git merge" \notin f)
                  => registry[id].feature_name \in branches }

\* main of worktree_merge.py
Merge(id, fails) ==
    /\ LET r == MergeRun(id, fails)
       IN  /\ registry' = r.registry
           /\ last' = Done("merge", id, <<>>, "", r.exit, r.cmds,
                           fails \cap Range(r.cmds), NoGh,
                           registry_exists, registry)
    /\ UNCHANGED <<registry_exists, registry_corrupt, dirs, branches, clock>>
    /\ UNCHANGED <<pollvars, racevars, instvars>>

\* ---------------------------------------------------------------- cleanup
CleanupSteps == {"git worktree remove", "rmtree", "git branch -D",
                 "git push --delete", "git checkout"}
\* docker-compose.yml absent, or what `docker-compose down -v` does
DockerOutcomes == {"no_compose_file", "ok", "fail", "missing"}

\* cleanup_docker: the command it runs, if any
cleanup_docker(docker) ==
    IF docker = "no_compose_file" THEN <<>> ELSE <<"docker-compose down">>

\* cleanup_worktree that gives up when the directory cannot be removed
CleanupRun_AbortOnRemoveFailure(id, docker, fails) ==
    LET reg == load_registry(registry_exists, registry)
    IN
    IF LoadRaises \/ reg = EmptyRegistry \/ id \notin DOMAIN reg THEN
        [exit |-> 1, cmds |-> <<>>, failed |-> {}, saved |-> FALSE,
         registry |-> registry, dirs |-> dirs, branches |-> branches]
    ELSE
        LET name     == reg[id].feature_name
            c1       == IF name \in dirs THEN cleanup_docker(docker) ELSE <<>>
            dfail    == IF c1 # <<>> /\ docker # "ok"
                        THEN {"docker-compose down"} ELSE {}
            removeOk == "git worktree remove" \notin fails
            d1       == IF removeOk THEN dirs \ {name} ELSE dirs
            manual   == ~removeOk /\ name \in d1
            c2       == IF manual THEN <<"git worktree remove", "rmtree">>
                                  ELSE <<"git worktree remove">>
            d2       == IF manual /\ "rmtree" \notin fails
                        THEN d1 \ {name} ELSE d1
            b2       == IF "git branch -D" \in fails
                        THEN branches ELSE branches \ {name}
            cmds     == c1 \o c2 \o
                        <<"git branch -D", "git push --delete", "git checkout">>
        IN  IF manual /\ "rmtree" \in fails
            THEN [exit |-> 1, cmds |-> c1 \o c2,
                  failed |-> dfail \cup (fails \cap Range(c2)),
                  saved |-> FALSE, registry |-> registry, dirs |-> d2,
                  branches |-> branches]
            ELSE [exit |-> 0, cmds |-> cmds,
                  failed |-> dfail \cup (fails \cap Range(cmds)),
                  saved |-> TRUE,
                  registry |-> Put(reg, id,
                                   [reg[id] EXCEPT !.status = "cleaned_up"]),
                  dirs |-> d2, branches |-> b2]

\* cleanup_worktree that refuses a record that is cleaned up already
CleanupRun_RefuseCleaned(id, docker, fails) ==
    LET reg == load_registry(registry_exists, registry)
    IN
    IF LoadRaises \/ reg = EmptyRegistry \/ id \notin DOMAIN reg
       \/ reg[id].status = "cleaned_up" THEN
        [exit |-> 1, cmds |-> <<>>, failed |-> {}, saved |-> FALSE,
         registry |-> registry, dirs |-> dirs, branches |-> branches]
    ELSE
        LET name     == reg[id].feature_name
            c1       == IF name \in dirs THEN cleanup_docker(docker) ELSE <<>>
            dfail    == IF c1 # <<>> /\ docker # "ok"
                        THEN {"docker-compose down"} ELSE {}
            removeOk == "git worktree remove" \notin fails
            d1       == IF removeOk THEN dirs \ {name} ELSE dirs
            manual   == ~removeOk /\ name \in d1
            c2       == IF manual THEN <<"git worktree remove", "rmtree">>
                                  ELSE <<"git worktree remove">>
            d2       == IF manual /\ "rmtree" \notin fails
                        THEN d1 \ {name} ELSE d1
            b2       == IF "git branch -D" \in fails
                        THEN branches ELSE branches \ {name}
            cmds     == c1 \o c2 \o
                        <<"git branch -D", "git push --delete", "git checkout">>
        IN  [exit |-> 0, cmds |-> cmds,
             failed |-> dfail \cup (fails \cap Range(cmds)),
             saved |-> TRUE,
             registry |-> Put(reg, id, [reg[id] EXCEPT !.status = "cleaned_up"]),
             dirs |-> d2, branches |-> b2]

\* cleanup_worktree that takes the record out of the registry
CleanupRun_DropsRecord(id, docker, fails) ==
    LET reg == load_registry(registry_exists, registry)
    IN
    IF LoadRaises \/ reg = EmptyRegistry \/ id \notin DOMAIN reg THEN
        [exit |-> 1, cmds |-> <<>>, failed |-> {}, saved |-> FALSE,
         registry |-> registry, dirs |-> dirs, branches |-> branches]
    ELSE
        LET name     == reg[id].feature_name
            c1       == IF name \in dirs THEN cleanup_docker(docker) ELSE <<>>
            dfail    == IF c1 # <<>> /\ docker # "ok"
                        THEN {"docker-compose down"} ELSE {}
            removeOk == "git worktree remove" \notin fails
            d1       == IF removeOk THEN dirs \ {name} ELSE dirs
            manual   == ~removeOk /\ name \in d1
            c2       == IF manual THEN <<"git worktree remove", "rmtree">>
                                  ELSE <<"git worktree remove">>
            d2       == IF manual /\ "rmtree" \notin fails
                        THEN d1 \ {name} ELSE d1
            b2       == IF "git branch -D" \in fails
                        THEN branches ELSE branches \ {name}
            cmds     == c1 \o c2 \o
                        <<"git branch -D", "git push --delete", "git checkout">>
        IN  [exit |-> 0, cmds |-> cmds,
             failed |-> dfail \cup (fails \cap Range(cmds)),
             saved |-> TRUE,
             registry |-> [x \in (DOMAIN reg) \ {id} |-> reg[x]],
             dirs |-> d2, branches |-> b2]

\* cleanup_worktree that tears the compose environment down after it has
\* removed the directory
CleanupRun_RemoveBeforeDocker(id, docker, fails) ==
    LET reg == load_registry(registry_exists, registry)
    IN
    IF LoadRaises \/ reg = EmptyRegistry \/ id \notin DOMAIN reg THEN
        [exit |-> 1, cmds |-> <<>>, failed |-> {}, saved |-> FALSE,
         registry |-> registry, dirs |-> dirs, branches |-> branches]
    ELSE
        LET name     == reg[id].feature_name
            c1       == IF name \in dirs THEN cleanup_docker(docker) ELSE <<>>
            dfail    == IF c1 # <<>> /\ docker # "ok"
                        THEN {"docker-compose down"} ELSE {}
            removeOk == "git worktree remove" \notin fails
            d1       == IF removeOk THEN dirs \ {name} ELSE dirs
            manual   == ~removeOk /\ name \in d1
            c2       == IF manual THEN <<"git worktree remove", "rmtree">>
                                  ELSE <<"git worktree remove">>
            d2       == IF manual /\ "rmtree" \notin fails
                        THEN d1 \ {name} ELSE d1
            b2       == IF "git branch -D" \in fails
                        THEN branches ELSE branches \ {name}
            cmds     == c2 \o c1 \o
                        <<"git branch -D", "git push --delete", "git checkout">>
        IN  [exit |-> 0, cmds |-> cmds,
             failed |-> dfail \cup (fails \cap Range(cmds)),
             saved |-> TRUE,
             registry |-> Put(reg, id, [reg[id] EXCEPT !.status = "cleaned_up"]),
             dirs |-> d2, branches |-> b2]

\* cleanup_worktree that ends without writing the status
CleanupRun_SkipsSave(id, docker, fails) ==
    LET reg == load_registry(registry_exists, registry)
    IN
    IF LoadRaises \/ reg = EmptyRegistry \/ id \notin DOMAIN reg THEN
        [exit |-> 1, cmds |-> <<>>, failed |-> {}, saved |-> FALSE,
         registry |-> registry, dirs |-> dirs, branches |-> branches]
    ELSE
        LET name     == reg[id].feature_name
            c1       == IF name \in dirs THEN cleanup_docker(docker) ELSE <<>>
            dfail    == IF c1 # <<>> /\ docker # "ok"
                        THEN {"docker-compose down"} ELSE {}
            removeOk == "git worktree remove" \notin fails
            d1       == IF removeOk THEN dirs \ {name} ELSE dirs
            manual   == ~removeOk /\ name \in d1
            c2       == IF manual THEN <<"git worktree remove", "rmtree">>
                                  ELSE <<"git worktree remove">>
            d2       == IF manual /\ "rmtree" \notin fails
                        THEN d1 \ {name} ELSE d1
            b2       == IF "git branch -D" \in fails
                        THEN branches ELSE branches \ {name}
            cmds     == c1 \o c2 \o
                        <<"git branch -D", "git push --delete", "git checkout">>
        IN  [exit |-> 0, cmds |-> cmds,
             failed |-> dfail \cup (fails \cap Range(cmds)),
             saved |-> FALSE,
             registry |-> registry,
             dirs |-> d2, branches |-> b2]

\* cleanup_worktree: what it runs, how it exits, and the registry and the
\* directories it leaves.
\*   docker  the compose descriptor and tool, as DockerOutcomes
\*   fails   the steps that fail if they are run
CleanupRun(id, docker, fails) ==
    LET reg == load_registry(registry_exists, registry)
    IN
    IF LoadRaises \/ reg = EmptyRegistry \/ id \notin DOMAIN reg THEN
        [exit |-> 1, cmds |-> <<>>, failed |-> {}, saved |-> FALSE,
         registry |-> registry, dirs |-> dirs, branches |-> branches]
    ELSE
        LET name     == reg[id].feature_name
            c1       == IF name \in dirs THEN cleanup_docker(docker) ELSE <<>>
            dfail    == IF c1 # <<>> /\ docker # "ok"
                        THEN {"docker-compose down"} ELSE {}
            removeOk == "git worktree remove" \notin fails
            d1       == IF removeOk THEN dirs \ {name} ELSE dirs
            manual   == ~removeOk /\ name \in d1
            c2       == IF manual THEN <<"git worktree remove", "rmtree">>
                                  ELSE <<"git worktree remove">>
            d2       == IF manual /\ "rmtree" \notin fails
                        THEN d1 \ {name} ELSE d1
            b2       == IF "git branch -D" \in fails
                        THEN branches ELSE branches \ {name}
            cmds     == c1 \o c2 \o
                        <<"git branch -D", "git push --delete", "git checkout">>
        IN  [exit |-> 0, cmds |-> cmds,
             failed |-> dfail \cup (fails \cap Range(cmds)),
             saved |-> TRUE,
             registry |-> Put(reg, id, [reg[id] EXCEPT !.status = "cleaned_up"]),
             dirs |-> d2, branches |-> b2]

\* every way the sub-steps of cleanup can go
AllCleanupCases == DockerOutcomes \X (SUBSET CleanupSteps)

\* four of them: nothing fails, the primary removal fails, the branch
\* deletion fails, everything fails
SomeCleanupCases ==
    { <<"ok", {}>>, <<"no_compose_file", {"git worktree remove"}>>,
      <<"no_compose_file", {"git branch -D"}>>, <<"fail", CleanupSteps>> }

\* the cases of a family that differ in what cleanup_worktree sees and
\* that the file system and git can produce: a directory that does not
\* exist holds no compose descriptor, and `git branch -D` of a branch that
\* does not exist fails
CleanupCases(id, family) ==
    { c \in family :
        LET r == CleanupRun(id, c[1], c[2])
        IN  /\ c[2] \subseteq Range(r.cmds)
            /\ (r.exit = 0 /\ registry[id].feature_name \notin dirs)
                  => c[1] = "no_compose_file"
            /\ ("git branch -D" \in Range(r.cmds)
                   /\ "git branch -D" \notin c[2])
                  => registry[id].feature_name \in branches }

\* main of worktree_cleanup.py
Cleanup(id, docker, fails) ==
    /\ LET r == CleanupRun(id, docker, fails)
       IN  /\ registry' = r.registry
           /\ dirs' = r.dirs
           /\ branches' = r.branches
           /\ last' = Done("cleanup", id, <<>>, "", r.exit, r.cmds, r.failed,
                           NoGh, registry_exists, registry)
    /\ UNCHANGED <<registry_exists, registry_corrupt, clock>>
    /\ UNCHANGED <<pollvars, racevars, instvars>>

\* -------------------------------------------------------- check-pr-status
\* check_pr_status that asks gh also when the record has no pr sub-record
check_pr_status_NoPrGuard(id, gh) ==
    LET reg == load_registry(registry_exists, registry)
        err(q) == [state |-> "ERROR", queried |-> q, raised |-> FALSE]
    IN
    IF LoadRaises THEN [state |-> "ERROR", queried |-> FALSE, raised |-> TRUE]
    ELSE IF reg = EmptyRegistry THEN err(FALSE)
    ELSE IF id \notin DOMAIN reg THEN err(FALSE)
    ELSE IF gh.kind = "state"
         THEN [state |-> gh.state, queried |-> TRUE, raised |-> FALSE]
    ELSE IF gh.kind = "nonzero_exit" THEN err(TRUE)
    ELSE [state |-> "ERROR", queried |-> TRUE, raised |-> TRUE]

\* check_pr_status: the state it returns, whether it asked gh, and whether
\* it ended by an exception that nothing catches
check_pr_status(id, gh) ==
    LET reg == load_registry(registry_exists, registry)
        err(q) == [state |-> "ERROR", queried |-> q, raised |-> FALSE]
    IN
    IF LoadRaises THEN [state |-> "ERROR", queried |-> FALSE, raised |-> TRUE]
    ELSE IF reg = EmptyRegistry THEN err(FALSE)
    ELSE IF id \notin DOMAIN reg THEN err(FALSE)
    ELSE IF ~HasPR(reg[id]) THEN err(FALSE)
    ELSE IF gh.kind = "state"
         THEN [state |-> gh.state, queried |-> TRUE, raised |-> FALSE]
    ELSE IF gh.kind = "nonzero_exit" THEN err(TRUE)
    \* FileNotFoundError, json.JSONDecodeError, KeyError: not caught
    ELSE [state |-> "ERROR", queried |-> TRUE, raised |-> TRUE]

\* the exit codes with CLOSED taken for a state to keep polling on
StateExit_ClosedKeepsPolling(state) ==
    IF state = "MERGED" THEN 0
    ELSE IF state = "OPEN" THEN 1
    ELSE IF state = "CLOSED" THEN 1
    ELSE 2

\* the exit code main gives a state
StateExit(state) ==
    IF state = "MERGED" THEN 0
    ELSE IF state = "OPEN" THEN 1
    ELSE IF state = "CLOSED" THEN 2
    ELSE 2

\* main of worktree_check_pr_status.py: its exit code and what it ran
CheckRun(id, gh) ==
    LET c   == check_pr_status(id, gh)
        reg == load_registry(registry_exists, registry)
    IN  [exit |-> IF c.raised THEN 1   \* ended by the exception
                  ELSE IF id \notin DOMAIN reg THEN 2
                  ELSE StateExit(c.state),
         cmds |-> IF c.queried THEN <<"gh pr view">> ELSE <<>>,
         failed |-> IF c.queried /\ gh.kind # "state"
                    THEN {"gh pr view"} ELSE {},
         gh |-> IF c.queried THEN gh ELSE NoGh]

\* the gh responses that differ in what check_pr_status sees
CheckCases(id) ==
    IF check_pr_status(id, CHOOSE g \in GhResponses : TRUE).queried
    THEN GhResponses ELSE {CHOOSE g \in GhResponses : TRUE}

CheckPRStatus(id, gh) ==
    /\ LET r == CheckRun(id, gh)
       IN  last' = Done("check", id, <<>>, "", r.exit, r.cmds, r.failed, r.gh,
                        registry_exists, registry)
    /\ UNCHANGED fsvars
    /\ UNCHANGED <<pollvars, racevars, instvars>>

\* ------------------------------------------------- the pr sub-record
\* The PR workflow records the pull request it opened for a worktree.
AttachPR(id, n) ==
    /\ registry_exists
    /\ ~registry_corrupt
    /\ id \in DOMAIN registry
    /\ ~HasPR(registry[id])
    /\ registry' = Put(registry, id,
           [k \in (DOMAIN registry[id]) \cup {"pr"} |->
               IF k = "pr" THEN [number |-> n, title |-> "PR"]
               ELSE registry[id][k]])
    /\ last' = Done("attach-pr", id, <<>>, "", 0, <<>>, {}, NoGh,
                    registry_exists, registry)
    /\ UNCHANGED <<registry_exists, registry_corrupt, dirs, branches, clock>>
    /\ UNCHANGED <<pollvars, racevars, instvars>>

\* ---------------------------------------------------------------- poll-pr
\* main of worktree_poll_pr.py up to the first iteration of poll_pr_status
PollStart(id, minutes) ==
    /\ pc = "idle"
    /\ pc' = "poll"
    /\ poll_id' = id
    /\ interval_minutes' = minutes
    /\ interval_seconds' = minutes * SecondsPerMinute
    /\ poll_count' = 0
    /\ results' = <<>>
    /\ sleeps' = <<>>
    /\ cleanup_calls' = 0
    /\ checks_after_cleanup' = 0
    /\ poll_exit' = -1
    /\ last' = Done("poll-pr", id, <<>>, "", 0, <<>>, {}, NoGh,
                    registry_exists, registry)
    /\ UNCHANGED fsvars
    /\ UNCHANGED <<racevars, instvars>>

\* the loop with every non-zero return code taken for "still open"
PollCheck_RetryOnError(gh) ==
    /\ pc = "poll"
    /\ poll_count < MaxPolls
    /\ LET r == CheckRun(poll_id, gh)
       IN  /\ poll_count' = poll_count + 1
           /\ results' = Append(results, r.exit)
           /\ checks_after_cleanup' =
                  IF cleanup_calls > 0 THEN checks_after_cleanup + 1
                                       ELSE checks_after_cleanup
           /\ last' = Done("check", poll_id, <<>>, "", r.exit, r.cmds,
                           r.failed, r.gh, registry_exists, registry)
           /\ IF r.exit = 0 THEN pc' = "cleanup" /\ poll_exit' = poll_exit
              ELSE pc' = "sleep" /\ poll_exit' = poll_exit
    /\ UNCHANGED <<poll_id, interval_minutes, interval_seconds, sleeps,
                   cleanup_calls>>
    /\ UNCHANGED fsvars
    /\ UNCHANGED <<racevars, instvars>>

\* the loop with a check that records a merged PR in the registry
PollCheck_WritesStatus(gh) ==
    /\ pc = "poll"
    /\ poll_count < MaxPolls
    /\ LET r == CheckRun(poll_id, gh)
       IN  /\ poll_count' = poll_count + 1
           /\ results' = Append(results, r.exit)
           /\ checks_after_cleanup' =
                  IF cleanup_calls > 0 THEN checks_after_cleanup + 1
                                       ELSE checks_after_cleanup
           /\ last' = Done("check", poll_id, <<>>, "", r.exit, r.cmds,
                           r.failed, r.gh, registry_exists, registry)
           /\ registry' =
                  IF r.exit = 0
                  THEN Put(registry, poll_id,
                           [registry[poll_id] EXCEPT !.status = "merged"])
                  ELSE registry
           /\ IF r.exit = 0 THEN pc' = "cleanup" /\ poll_exit' = poll_exit
              ELSE IF r.exit = 1 THEN pc' = "sleep" /\ poll_exit' = poll_exit
              ELSE pc' = "done" /\ poll_exit' = 1
    /\ UNCHANGED <<poll_id, interval_minutes, interval_seconds, sleeps,
                   cleanup_calls>>
    /\ UNCHANGED <<registry_exists, registry_corrupt, dirs, branches, clock>>
    /\ UNCHANGED <<racevars, instvars>>

\* one iteration of the loop up to the branch on result.returncode
PollCheck(gh) ==
    /\ pc = "poll"
    /\ poll_count < MaxPolls
    /\ LET r == CheckRun(poll_id, gh)
       IN  /\ poll_count' = poll_count + 1
           /\ results' = Append(results, r.exit)
           /\ checks_after_cleanup' =
                  IF cleanup_calls > 0 THEN checks_after_cleanup + 1
                                       ELSE checks_after_cleanup
           /\ last' = Done("check", poll_id, <<>>, "", r.exit, r.cmds,
                           r.failed, r.gh, registry_exists, registry)
           /\ IF r.exit = 0 THEN pc' = "cleanup" /\ poll_exit' = poll_exit
              ELSE IF r.exit = 1 THEN pc' = "sleep" /\ poll_exit' = poll_exit
              ELSE pc' = "done" /\ poll_exit' = 1
    /\ UNCHANGED <<poll_id, interval_minutes, interval_seconds, sleeps,
                   cleanup_calls>>
    /\ UNCHANGED fsvars
    /\ UNCHANGED <<racevars, instvars>>

\* the branch result.returncode == 0 without its sys.exit calls
PollCleanup_NoExit(docker, fails) ==
    /\ pc = "cleanup"
    /\ LET r == CleanupRun(poll_id, docker, fails)
       IN  /\ registry' = r.registry
           /\ dirs' = r.dirs
           /\ branches' = r.branches
           /\ cleanup_calls' = cleanup_calls + 1
           /\ last' = Done("cleanup", poll_id, <<>>, "", r.exit, r.cmds,
                           r.failed, NoGh, registry_exists, registry)
           /\ poll_exit' = poll_exit
           /\ pc' = "poll"
    /\ UNCHANGED <<racevars, instvars>>
    /\ UNCHANGED <<registry_exists, registry_corrupt, clock, poll_id,
                   interval_minutes,
                   interval_seconds, poll_count, results, sleeps,
                   checks_after_cleanup>>

\* the branch result.returncode == 0 up to the return of the cleanup
\* subprocess
PollCleanup(docker, fails) ==
    /\ pc = "cleanup"
    /\ LET r == CleanupRun(poll_id, docker, fails)
       IN  /\ registry' = r.registry
           /\ dirs' = r.dirs
           /\ branches' = r.branches
           /\ cleanup_calls' = cleanup_calls + 1
           /\ last' = Done("cleanup", poll_id, <<>>, "", r.exit, r.cmds,
                           r.failed, NoGh, registry_exists, registry)
           /\ poll_exit' = poll_exit
           /\ pc' = "cleaned"
    /\ UNCHANGED <<racevars, instvars>>
    /\ UNCHANGED <<registry_exists, registry_corrupt, clock, poll_id,
                   interval_minutes, interval_seconds, poll_count, results,
                   sleeps, checks_after_cleanup>>

\* the rest of that branch: sys.exit on cleanup_result.returncode, which
\* `last` holds
PollExit ==
    /\ pc = "cleaned"
    /\ pc' = "done"
    /\ poll_exit' = IF last.exit = 0 THEN 0 ELSE 1
    /\ UNCHANGED <<poll_id, interval_minutes, interval_seconds, poll_count,
                   results, sleeps, cleanup_calls, checks_after_cleanup, last>>
    /\ UNCHANGED fsvars
    /\ UNCHANGED <<racevars, instvars>>

\* the branch result.returncode == 1 sleeping interval_minutes seconds
PollSleep_Minutes ==
    /\ pc = "sleep"
    /\ IF interval_minutes < 0
       THEN /\ pc' = "done"
            /\ poll_exit' = 1
            /\ sleeps' = sleeps
       ELSE /\ pc' = "poll"
            /\ poll_exit' = poll_exit
            /\ sleeps' = Append(sleeps, interval_minutes)
    /\ UNCHANGED <<poll_id, interval_minutes, interval_seconds, poll_count,
                   results, cleanup_calls, checks_after_cleanup, last>>
    /\ UNCHANGED fsvars
    /\ UNCHANGED <<racevars, instvars>>

\* the branch result.returncode == 1; time.sleep raises ValueError on a
\* negative length and nothing catches it
PollSleep ==
    /\ pc = "sleep"
    /\ IF interval_seconds < 0
       THEN /\ pc' = "done"
            /\ poll_exit' = 1
            /\ sleeps' = sleeps
       ELSE /\ pc' = "poll"
            /\ poll_exit' = poll_exit
            /\ sleeps' = Append(sleeps, interval_seconds)
    /\ UNCHANGED <<poll_id, interval_minutes, interval_seconds, poll_count,
                   results, cleanup_calls, checks_after_cleanup, last>>
    /\ UNCHANGED fsvars
    /\ UNCHANGED <<racevars, instvars>>

\* KeyboardInterrupt, raised wherever poll_pr_status stands and caught by
\* main
PollInterrupt ==
    /\ pc \in {"poll", "cleanup", "cleaned", "sleep"}
    /\ pc' = "interrupted"
    /\ poll_exit' = 1
    /\ UNCHANGED <<poll_id, interval_minutes, interval_seconds, poll_count,
                   results, sleeps, cleanup_calls, checks_after_cleanup, last>>
    /\ UNCHANGED fsvars
    /\ UNCHANGED <<racevars, instvars>>

\* ------------------------------------------------------- specifications
NoLast == Done("none", "", <<>>, "", 0, <<>>, {}, NoGh, FALSE, EmptyRegistry)

Init ==
    /\ registry_exists = FALSE
    /\ registry = EmptyRegistry
    /\ registry_corrupt = FALSE
    /\ dirs = {}
    /\ branches = {}
    /\ clock = 0
    /\ last = NoLast
    /\ pc = "idle"
    /\ poll_id = ""
    /\ interval_minutes = 0
    /\ interval_seconds = 0
    /\ poll_count = 0
    /\ results = <<>>
    /\ sleeps = <<>>
    /\ cleanup_calls = 0
    /\ checks_after_cleanup = 0
    /\ poll_exit = -1
    /\ inflight = [p \in Procs |-> Idle]
    /\ install = NotInstalled

\* the choices of git that differ in what create sees: main rejects an
\* invalid name before any git command runs
CreateCases(name) ==
    IF ValidFeatureName(name)
    THEN (Branches \X {"ok", "add_fails"}) \cup {<<"", "revparse_fails">>}
    ELSE {<<"", "ok">>}

DoCreate(maxN) ==
    \E name \in FeatureNames : \E c \in CreateCases(name) :
        Create(name, c[1], c[2], maxN)

\* create run on main with git succeeding
DoCreateOnMain(maxN) ==
    \E name \in FeatureNames : Create(name, "main", "ok", maxN)

DoMerge(maxN, family) ==
    \E id \in IdInputs(maxN) : \E fails \in MergeCases(id, family) :
        Merge(id, fails)

DoCleanup(maxN, family) ==
    \E id \in IdInputs(maxN) : \E c \in CleanupCases(id, family) :
        Cleanup(id, c[1], c[2])

DoCheck(maxN) ==
    \E id \in IdInputs(maxN) : \E gh \in CheckCases(id) : CheckPRStatus(id, gh)

DoAttachPR(maxN) ==
    \E id \in IdInputs(maxN), n \in PRNumbers : AttachPR(id, n)

\* The lifecycle: create, merge, cleanup and check-pr-status invoked one
\* after another in any order.
Next ==
    \/ DoCreate(MaxEntries)
    \/ DoMerge(MaxEntries, SomeMergeCases)
    \/ DoCleanup(MaxEntries, SomeCleanupCases)
    \/ DoCheck(MaxEntries)

Spec == Init /\ [][Next]_vars

\* Worktrees created from main over a smaller registry, with every outcome
\* of the steps of merge and cleanup.
NextCleanup ==
    \/ DoCreateOnMain(DeepMaxEntries)
    \/ DoMerge(DeepMaxEntries, AllMergeCases)
    \/ DoCleanup(DeepMaxEntries, AllCleanupCases)

SpecCleanup == Init /\ [][NextCleanup]_vars

\* The PR workflow: worktrees are created, pull requests are recorded for
\* them, their state is checked, and one poll-pr run follows.
NextPR ==
    \/ pc = "idle" /\ DoCreate(PollMaxEntries)
    \/ pc = "idle" /\ DoAttachPR(PollMaxEntries)
    \/ pc = "idle" /\ DoMerge(PollMaxEntries, SomeMergeCases)
    \/ pc = "idle" /\ DoCleanup(PollMaxEntries, SomeCleanupCases)
    \/ pc = "idle" /\ DoCheck(PollMaxEntries)
    \/ \E id \in IdInputs(PollMaxEntries), m \in Intervals : PollStart(id, m)
    \/ \E gh \in CheckCases(poll_id) : PollCheck(gh)
    \/ \E c \in CleanupCases(poll_id, SomeCleanupCases) : PollCleanup(c[1], c[2])
    \/ PollExit
    \/ PollSleep
    \/ PollInterrupt

SpecPR == Init /\ [][NextPR]_vars

\* The same with the steps of a started run taken as long as they can be
\* taken: the interpreter goes on to its next statement, and the check and
\* cleanup subprocesses return.
PollSteps ==
    \/ \E gh \in CheckCases(poll_id) : PollCheck(gh)
    \/ \E c \in CleanupCases(poll_id, SomeCleanupCases) : PollCleanup(c[1], c[2])
    \/ PollExit
    \/ PollSleep

SpecPRFair == SpecPR /\ WF_vars(PollSteps)

\* REGISTRY_FILE is left holding text that json.load rejects: save_registry
\* opens the file with 'w', which empties it, and writes the document into
\* it afterwards, so a save that is cut short leaves an empty or partial
\* file (as does an edit by hand).
DamageRegistry ==
    /\ ~registry_corrupt
    /\ registry_exists' = TRUE
    /\ registry_corrupt' = TRUE
    /\ registry' = EmptyRegistry
    /\ last' = Done("damage", "", <<>>, "", 0, <<>>, {}, NoGh,
                    registry_exists, registry)
    /\ UNCHANGED <<dirs, branches, clock>>
    /\ UNCHANGED <<pollvars, racevars, instvars>>

\* The lifecycle over a registry file that may become unreadable.
NextDamaged ==
    \/ DoCreate(DeepMaxEntries)
    \/ DoMerge(DeepMaxEntries, SomeMergeCases)
    \/ DoCleanup(DeepMaxEntries, SomeCleanupCases)
    \/ DoCheck(DeepMaxEntries)
    \/ DamageRegistry

SpecDamaged == Init /\ [][NextDamaged]_vars

\* the registry n creates leave, every worktree cleaned up again
SeqRegistry(n) ==
    [k \in { "worktree-" \o Pad2(i) : i \in 1..n } |->
        [NewRecord(k, <<"a">>, "main",
                   (CHOOSE i \in 1..n : k = "worktree-" \o Pad2(i)) - 1)
            EXCEPT !.status = "cleaned_up"]]

InitId ==
    /\ registry \in { SeqRegistry(n) : n \in 0..MaxIdEntries }
    /\ registry_exists = (registry # EmptyRegistry)
    /\ registry_corrupt = FALSE
    /\ dirs = {}
    /\ branches = {}
    /\ clock = Cardinality(DOMAIN registry)
    /\ last = NoLast
    /\ pc = "idle"
    /\ poll_id = ""
    /\ interval_minutes = 0
    /\ interval_seconds = 0
    /\ poll_count = 0
    /\ results = <<>>
    /\ sleeps = <<>>
    /\ cleanup_calls = 0
    /\ checks_after_cleanup = 0
    /\ poll_exit = -1
    /\ inflight = [p \in Procs |-> Idle]
    /\ install = NotInstalled

\* one record is taken out of the registry file, by hand: no script does it
RemoveEntry(k) ==
    /\ last.op = "none"
    /\ k \in DOMAIN registry
    /\ registry' = [x \in (DOMAIN registry) \ {k} |-> registry[x]]
    /\ last' = Done("remove", k, <<>>, "", 0, <<>>, {}, NoGh,
                    registry_exists, registry)
    /\ UNCHANGED <<registry_exists, registry_corrupt, dirs, branches, clock>>
    /\ UNCHANGED <<pollvars, racevars, instvars>>

\* generate_worktree_id(load_registry()), nothing saved.  `last` keeps the
\* id returned (id), the ids the calls on this registry returned so far
\* (cmds), the key removed beforehand or "" (base) and the registry passed
\* (pre).
GenerateId ==
    /\ last.op = "generate_id" => Len(last.cmds) < MaxIdCalls
    /\ LET worktree_id ==
               generate_worktree_id(load_registry(registry_exists, registry))
       IN  last' = Done("generate_id", worktree_id, <<>>,
                        IF last.op = "remove" THEN last.id ELSE last.base,
                        0,
                        (IF last.op = "generate_id" THEN last.cmds ELSE <<>>)
                            \o <<worktree_id>>,
                        {}, NoGh, registry_exists, registry)
    /\ UNCHANGED fsvars
    /\ UNCHANGED <<pollvars, racevars, instvars>>

\* generate_worktree_id applied to the registries creates leave, before and
\* after the removal of one record
NextId ==
    \/ \E k \in DOMAIN registry : RemoveEntry(k)
    \/ GenerateId

SpecId == InitId /\ [][NextId]_vars

\* ------------------------------------------------ overlapping invocations
\* save_registry that reads the file again and changes that
WriteBack_Reread(doc, file, k, v) == Put(file, k, v)

\* registry[k] = v; save_registry(registry): the document the invocation
\* loaded goes back whole, whatever the file holds by now
WriteBack(doc, file, k, v) == Put(doc, k, v)

\* create_worktree up to generate_worktree_id: the worktree is added (git
\* succeeds, the current branch is main), the registry is loaded and the id
\* chosen
RaceCreateStart(p, name) ==
    /\ inflight[p] = Idle
    /\ clock < MaxRaceOps
    /\ ValidFeatureName(name)
    /\ name \notin dirs
    /\ name \notin branches
    /\ ~LoadRaises
    /\ dirs' = dirs \cup {name}
    /\ branches' = branches \cup {name}
    /\ LET reg == load_registry(registry_exists, registry)
       IN  inflight' = [inflight EXCEPT ![p] =
               [op |-> "create", id |-> generate_worktree_id(reg),
                name |-> name, doc |-> reg]]
    /\ clock' = clock + 1
    /\ UNCHANGED <<registry_exists, registry, registry_corrupt, last>>
    /\ UNCHANGED <<pollvars, instvars>>

\* merge_worktree up to its push: the registry is loaded, the record found
\* and the feature branch merged (git succeeds)
RaceMergeStart(p, id) ==
    /\ inflight[p] = Idle
    /\ clock < MaxRaceOps
    /\ ~LoadRaises
    /\ LET reg == load_registry(registry_exists, registry)
       IN  /\ id \in DOMAIN reg
           /\ reg[id].feature_name \in branches
           /\ inflight' = [inflight EXCEPT ![p] =
                  [op |-> "merge", id |-> id,
                   name |-> reg[id].feature_name, doc |-> reg]]
    /\ clock' = clock + 1
    /\ UNCHANGED <<registry_exists, registry, registry_corrupt, dirs, branches>>
    /\ UNCHANGED <<last, pollvars, instvars>>

\* cleanup_worktree up to its checkout: the registry is loaded, the record
\* found, the directory and the branch removed (git succeeds)
RaceCleanupStart(p, id) ==
    /\ inflight[p] = Idle
    /\ clock < MaxRaceOps
    /\ ~LoadRaises
    /\ LET reg == load_registry(registry_exists, registry)
       IN  /\ id \in DOMAIN reg
           /\ reg[id].feature_name \in branches
           /\ dirs' = dirs \ {reg[id].feature_name}
           /\ branches' = branches \ {reg[id].feature_name}
           /\ inflight' = [inflight EXCEPT ![p] =
                  [op |-> "cleanup", id |-> id,
                   name |-> reg[id].feature_name, doc |-> reg]]
    /\ clock' = clock + 1
    /\ UNCHANGED <<registry_exists, registry, registry_corrupt, last>>
    /\ UNCHANGED <<pollvars, instvars>>

\* the end of each of the three: the record is put into the document that
\* was loaded and the document is saved
RaceFinish(p) ==
    /\ inflight[p].op # "idle"
    /\ LET f == inflight[p]
           v == IF f.op = "create"
                THEN NewRecord(f.id, f.name, "main", clock)
                ELSE [f.doc[f.id] EXCEPT !.status =
                         IF f.op = "merge" THEN "merged" ELSE "cleaned_up"]
       IN  /\ registry' = WriteBack(f.doc, registry, f.id, v)
           /\ last' = Done(f.op, f.id, f.name,
                           IF f.op = "create" THEN "main" ELSE "",
                           0, <<>>, {}, NoGh, registry_exists, registry)
    /\ registry_exists' = TRUE
    /\ inflight' = [inflight EXCEPT ![p] = Idle]
    /\ UNCHANGED <<registry_corrupt, dirs, branches, clock>>
    /\ UNCHANGED <<pollvars, instvars>>

\* create, merge and cleanup run by up to MaxProcs operators at once
NextRace ==
    \/ \E p \in Procs, name \in FeatureNames : RaceCreateStart(p, name)
    \/ \E p \in Procs, id \in IdInputs(MaxRaceOps) : RaceMergeStart(p, id)
    \/ \E p \in Procs, id \in IdInputs(MaxRaceOps) : RaceCleanupStart(p, id)
    \/ \E p \in Procs : RaceFinish(p)

SpecRace == Init /\ [][NextRace]_vars

\* ------------------------------------------------------------- install.py
\* The part of main that builds .agents/config.json.
ConfigKeys == 1..MaxKeys
\* what the text of a value may hold: nothing to replace, or one of the two
\* texts main replaces by the project name
Texts == {"plain", "Citadel.AI", "{{PROJECT_NAME}}"}
Placeholders == {"Citadel.AI", "{{PROJECT_NAME}}"}
\* answers to the prompt "Project name"
ProjectNames == {"MyProject", "My\"Project"}
\* the names with a character that a JSON string must escape
JsonUnsafe == {"My\"Project"}

NoMap == [k \in {} |-> 0]

\* a map of a downloaded document: every value tells the document it is from
FragmentMap(tag, keys, text) == [k \in keys |-> [from |-> tag, text |-> text]]

\* a component of the project: not selected, selected with a config that
\* cannot be downloaded or parsed, or selected with a config whose agents and
\* settings maps hold the keys `keys`
FragmentInputs ==
    { [selected |-> FALSE, ok |-> FALSE, keys |-> {}, text |-> "plain"],
      [selected |-> TRUE, ok |-> FALSE, keys |-> {}, text |-> "plain"] }
    \cup [selected : {TRUE}, ok : {TRUE}, keys : SUBSET ConfigKeys, text : Texts]

\* config.json of the repository: not downloaded, or a document with an
\* agent under every key and the settings `settings`
BaseInputs ==
    { [ok |-> FALSE, settings |-> {}] }
    \cup [ok : {TRUE}, settings : SUBSET ConfigKeys]

\* dict.update
update(m, f) ==
    [k \in (DOMAIN m) \cup (DOMAIN f) |-> IF k \in DOMAIN f THEN f[k] ELSE m[k]]

\* merged_config after the download of the base
BaseConfig(base) ==
    IF base.ok
    THEN [agents |-> NoMap,
          settings |-> FragmentMap("base", base.settings, "plain")]
    ELSE [agents |-> NoMap, settings |-> NoMap]

\* one `if <component>:` block: the except clause leaves merged_config as it
\* was when urlopen or json.loads raised
Overlay(cfg, tag, frag) ==
    IF frag.selected /\ frag.ok
    THEN [agents |-> update(cfg.agents, FragmentMap(tag, frag.keys, frag.text)),
          settings |-> update(cfg.settings,
                              FragmentMap(tag, frag.keys, frag.text))]
    ELSE cfg

\* the three blocks in the order of the code
MergedConfig(base, frags) ==
    Overlay(Overlay(Overlay(BaseConfig(base), "backend", frags[1]),
                    "frontend", frags[2]),
            "infrastructure", frags[3])

\* the values of both maps
ConfigValues(cfg) ==
    { cfg.agents[k] : k \in DOMAIN cfg.agents }
    \cup { cfg.settings[k] : k \in DOMAIN cfg.settings }

\* json.loads of the text after the two str.replace calls raises: the
\* project name went into a JSON string as it is
SubstitutionRaises(cfg, name) ==
    /\ name \in JsonUnsafe
    /\ \E v \in ConfigValues(cfg) : v.text \in Placeholders

\* json.dumps, the two str.replace calls, json.loads
Substitute(cfg, name) ==
    LET sub(m) == [k \in DOMAIN m |->
                      IF m[k].text \in Placeholders
                      THEN [m[k] EXCEPT !.text = name] ELSE m[k]]
    IN  [agents |-> sub(cfg.agents), settings |-> sub(cfg.settings)]

InstallInputs ==
    [pc : {"start"}, name : ProjectNames, base : BaseInputs,
     frags : FragmentInputs \X FragmentInputs \X FragmentInputs,
     config : {[agents |-> NoMap, settings |-> NoMap]}]

InitInstall ==
    /\ registry_exists = FALSE
    /\ registry = EmptyRegistry
    /\ registry_corrupt = FALSE
    /\ dirs = {}
    /\ branches = {}
    /\ clock = 0
    /\ last = NoLast
    /\ pc = "idle"
    /\ poll_id = ""
    /\ interval_minutes = 0
    /\ interval_seconds = 0
    /\ poll_count = 0
    /\ results = <<>>
    /\ sleeps = <<>>
    /\ cleanup_calls = 0
    /\ checks_after_cleanup = 0
    /\ poll_exit = -1
    /\ inflight = [p \in Procs |-> Idle]
    /\ install \in InstallInputs

\* main from the download of the base config to the write of
\* .agents/config.json; an exception of json.loads ends it before the write
Install ==
    /\ install.pc = "start"
    /\ LET cfg == MergedConfig(install.base, install.frags)
       IN  install' =
             IF SubstitutionRaises(cfg, install.name)
             THEN [install EXCEPT !.pc = "raised"]
             ELSE [install EXCEPT !.pc = "written",
                                  !.config = Substitute(cfg, install.name)]
    /\ UNCHANGED <<fsvars, last, pollvars, racevars>>

NextInstall == Install

SpecInstall == InitInstall /\ [][NextInstall]_vars

\* ================================================================ claims
\* the latest invocation was op, on an id the registry held
OnRecord(op) ==
    /\ last.op = op
    /\ last.pre_exists
    /\ last.id \in DOMAIN last.pre

C2_CleanupAfterMergedOnce ==
    /\ cleanup_calls <= 1
    /\ (cleanup_calls = 1 \/ pc = "cleanup")
          => (Len(results) >= 1 /\ results[Len(results)] = 0)
    /\ checks_after_cleanup = 0

C2_Witness ==
    /\ cleanup_calls = 1
    /\ pc = "done"
    /\ results = <<1, 0>>

\* the status checks of the run returned OPEN k times and then MERGED
OpenThenMerged ==
    /\ Len(results) >= 1
    /\ results[Len(results)] = 0
    /\ \A i \in 1..(Len(results) - 1) : results[i] = 1

\* C3: when the checks return OPEN k times and then MERGED, poll-pr with
\* --interval m sleeps exactly k times, m*60 seconds each (300 s for the
\* default m = 5), once after each OPEN and not after the last check, and
\* then invokes cleanup.
C3_SleepsBetweenPolls ==
    /\ \A i \in 1..Len(sleeps) :
          /\ sleeps[i] = interval_minutes * 60
          /\ (interval_minutes = 5 => sleeps[i] = 300)
    /\ (pc = "poll" /\ \A i \in 1..Len(results) : results[i] = 1)
          => Len(sleeps) = Len(results)
    /\ OpenThenMerged => Len(sleeps) = Len(results) - 1
    /\ (OpenThenMerged /\ pc = "done") => cleanup_calls = 1

C3_Witness ==
    /\ pc = "done"
    /\ results = <<1, 1, 0>>
    /\ sleeps = <<300, 300>>
    /\ cleanup_calls = 1
    /\ poll_exit = 0

\* C4: a status check that returns a code other than 0 and 1 ends the run
\* with a non-zero exit: no sleep, no further poll and no cleanup follow it.
C4_OtherCodeEndsRun ==
    \A i \in 1..Len(results) :
        results[i] \notin {0, 1}
        => /\ i = Len(results)
           /\ pc = "done"
           /\ poll_exit > 0
           /\ Len(sleeps) = i - 1
           /\ cleanup_calls = 0

C4_Witness ==
    /\ results = <<1, 2>>
    /\ sleeps = <<60>>
    /\ pc = "done"
    /\ poll_exit = 1
    /\ cleanup_calls = 0

\* C5: whenever the query of gh fails (gh exits non-zero, cannot be started,
\* or prints something that is not JSON with a state field),
\* check-pr-status exits 2.
C5_QueryFailureExits2 ==
    (last.op = "check" /\ "gh pr view" \in last.failed) => last.exit = 2

\* C6: when the record of the given id has no pr sub-record, check-pr-status
\* exits non-zero and never runs the gh query.
C6_NoPrNoQuery ==
    (OnRecord("check") /\ ~HasPR(last.pre[last.id]))
    => /\ last.exit # 0
       /\ "gh pr view" \notin Range(last.cmds)

C6_Witness ==
    /\ OnRecord("check") /\ ~HasPR(last.pre[last.id])
    /\ last.exit = 2
    /\ last.cmds = <<>>

\* C7: one create of a valid feature name either adds exactly one entry
\* (status active, under a key that was not there, every other entry as it
\* was) or leaves the registry file as it was.
C7_CreateAddsOneOrNothing ==
    (last.op = "create" /\ ValidFeatureName(last.name))
    => \/ /\ registry = last.pre
          /\ registry_exists = last.pre_exists
       \/ \E k \in DOMAIN registry :
             /\ k \notin DOMAIN last.pre
             /\ DOMAIN registry = (DOMAIN last.pre) \cup {k}
             /\ registry[k].status = "active"
             /\ \A j \in DOMAIN last.pre : registry[j] = last.pre[j]

C7_Witness ==
    /\ last.op = "create" /\ ValidFeatureName(last.name)
    /\ last.exit = 0
    /\ Cardinality(DOMAIN last.pre) = 1
    /\ Cardinality(DOMAIN registry) = 2

\* C8: from an empty registry, through create, merge and cleanup one after
\* another, the id a create chooses is not yet a key of the registry, and
\* afterwards no record leaves its key or changes its id field.
C8_IdsUniqueAndImmutable ==
    [][ /\ \A k \in DOMAIN registry :
              /\ k \in DOMAIN registry'
              /\ registry'[k].id = registry[k].id
              /\ registry'[k].feature_name = registry[k].feature_name
        /\ (last'.op = "create" /\ last'.exit = 0)
              => last'.id \notin DOMAIN registry ]_vars

C8_Witness ==
    /\ last.op = "create" /\ last.exit = 0
    /\ last.id = "worktree-02"
    /\ "worktree-01" \in DOMAIN last.pre
    /\ last.pre["worktree-01"].status = "cleaned_up"
    /\ registry["worktree-01"] = last.pre["worktree-01"]

\* C9: when the git merge step of merge fails, merge exits non-zero, does
\* not push and leaves the registry as it was: the status of the record is
\* what it was before.
C9_ConflictLeavesRegistry ==
    (last.op = "merge" /\ "git merge" \in last.failed)
    => /\ last.exit # 0
       /\ "git push" \notin Range(last.cmds)
       /\ registry = last.pre
       /\ registry[last.id].status = last.pre[last.id].status

C9_Witness ==
    /\ last.op = "merge" /\ "git merge" \in last.failed
    /\ last.exit = 1
    /\ registry[last.id].status = "active"

\* C10: for an id the registry holds, cleanup ends with status cleaned_up
\* saved for that record and exit 0, whichever of its sub-steps failed.
C10_CleanupAlwaysConcludes ==
    OnRecord("cleanup")
    => /\ last.exit = 0
       /\ registry_exists
       /\ last.id \in DOMAIN registry
       /\ registry[last.id].status = "cleaned_up"

C10_Witness ==
    /\ OnRecord("cleanup")
    /\ last.failed = CleanupSteps \cup {"docker-compose down"}
    /\ last.exit = 0
    /\ registry[last.id].status = "cleaned_up"

\* position of a status in the lifecycle active, merged, cleaned_up
StatusRank(status) ==
    IF status = "active" THEN 0 ELSE IF status = "merged" THEN 1 ELSE 2

\* C11: over create, merge, cleanup, check and poll invocations the status
\* of a record never moves to an earlier value of active < merged <
\* cleaned_up.
C11_StatusMonotonic ==
    [][ \A k \in (DOMAIN registry) \cap (DOMAIN registry') :
            StatusRank(registry'[k].status) >= StatusRank(registry[k].status)
      ]_vars

\* C12: an operator interruption of poll-pr ends the run with a non-zero
\* exit, and in every interrupted run no cleanup has been performed: the
\* cleanup operation was not started and the status of the polled record
\* is what it was.
C12_InterruptMeansNoCleanup ==
    pc = "interrupted"
    => /\ poll_exit > 0
       /\ cleanup_calls = 0
       /\ last.op # "cleanup"

\* the run has ended
PollEnded == pc \in {"done", "interrupted"}

\* C13 (retry): as long as every check returned 1 and nobody interrupts,
\* the run goes on: it does not end, and every sleep has the same length.
C13_RetriesWhileOpen ==
    /\ (pc = "done" => \E i \in 1..Len(results) : results[i] # 1)
    /\ \A i \in 1..Len(sleeps) : sleeps[i] = sleeps[1]

\* C13 (termination): once a check has returned a code other than 1 the
\* run ends.
C13_EndsOnOtherCode ==
    (\E i \in 1..Len(results) : results[i] # 1) ~> PollEnded

\* C13: poll-pr retries without bound while the check keeps returning 1,
\* with no maximum retry count and an unchanging sleep length, and it ends
\* once a check has returned a code other than 1.
C13_RetriesUntilOtherCode == []C13_RetriesWhileOpen /\ C13_EndsOnOtherCode

\* a status check of the run returned 0 and the cleanup that followed
\* returned 0
MergedAndCleaned ==
    /\ Len(results) >= 1
    /\ results[Len(results)] = 0
    /\ cleanup_calls = 1
    /\ last.op = "cleanup"
    /\ last.exit = 0

\* C14: a run of poll-pr that has ended exited 0 exactly when a status
\* check returned 0 and the cleanup that followed returned 0; every other
\* ended run exited non-zero.
C14_ExitZeroIffMergedAndCleaned ==
    PollEnded => /\ poll_exit >= 0
                 /\ (poll_exit = 0 <=> MergedAndCleaned)

\* C15: create exits non-zero and leaves the registry file as it was when
\* the worktree path already exists, in which case `git worktree add` is
\* not run, and when `git worktree add` fails.
C15_CreateFailsCleanly ==
    [][ ( /\ last'.op = "create"
          /\ \/ last'.name \in dirs
             \/ "git worktree add" \in last'.failed )
        => /\ last'.exit # 0
           /\ registry' = registry
           /\ registry_exists' = registry_exists
           /\ (last'.name \in dirs
                 => "git worktree add" \notin Range(last'.cmds))
      ]_vars

C15_Witness ==
    /\ last.op = "create" /\ last.exit = 1
    /\ last.name \in dirs
    /\ last.cmds = <<"git rev-parse">>
    /\ last.failed = {}
    /\ Cardinality(DOMAIN registry) = 1
    /\ registry = last.pre

AllowedChars == AlnumChars \cup {"-", "_"}

\* C17: create accepts a feature name exactly when every character of it
\* is an alphanumeric, a hyphen or an underscore; every other name is
\* rejected with a non-zero exit before any git command runs and with the
\* registry untouched.
C17_AcceptsExactlyAllowedNames ==
    last.op = "create"
    => IF \A i \in 1..Len(last.name) : last.name[i] \in AllowedChars
       THEN last.cmds # <<>>
       ELSE /\ last.exit # 0
            /\ last.cmds = <<>>
            /\ registry = last.pre
            /\ registry_exists = last.pre_exists

\* worktree-NN for NN = n, two digits
IdOfNumber(n) ==
    "worktree-" \o (IF n < 10 THEN "0" \o ToString(n) ELSE ToString(n))

\* C18 as stated: generate_id returns worktree-NN, NN the number of entries
\* plus one in two digits; two calls on the same registry return the same
\* id; and after an entry is removed from a registry of size n >= 2 the
\* generated id is a key still present.
C18_RemovalAlwaysCollides ==
    last.op = "generate_id"
    => LET n == Cardinality(DOMAIN last.pre)
       IN  /\ last.id = IdOfNumber(n + 1)
           /\ \A i \in 1..Len(last.cmds) : last.cmds[i] = last.id
           /\ (last.base # "" /\ n + 1 >= 2) => last.id \in DOMAIN last.pre

\* C18, amended: generate_id returns worktree-NN, NN the number of entries
\* plus one in two digits; two calls on the same registry return the same
\* id; and after an entry is removed from a registry worktree-01 ..
\* worktree-n, n >= 2, the generated id is worktree-n: a key still present
\* unless the entry removed was worktree-n itself.
C18_IdFromSize ==
    last.op = "generate_id"
    => LET n == Cardinality(DOMAIN last.pre)
       IN  /\ last.id = IdOfNumber(n + 1)
           /\ \A i \in 1..Len(last.cmds) : last.cmds[i] = last.id
           /\ (last.base # "" /\ n + 1 >= 2)
                 => (last.id \in DOMAIN last.pre <=> last.base # last.id)

C18_Witness ==
    /\ last.op = "generate_id"
    /\ last.base = "worktree-03"
    /\ Cardinality(DOMAIN last.pre) = 9
    /\ last.cmds = <<"worktree-10", "worktree-10">>
    /\ last.id \in DOMAIN last.pre

\* C19: when the git merge step of merge has succeeded, merge saves status
\* merged for the record and exits 0, also when the pull before it failed
\* and when the push after it failed.
C19_MergedDespiteRemoteFailures ==
    ( /\ last.op = "merge"
      /\ "git merge" \in Range(last.cmds)
      /\ "git merge" \notin last.failed )
    => /\ last.exit = 0
       /\ registry_exists
       /\ registry[last.id].status = "merged"
       /\ "git push" \in Range(last.cmds)

C19_Witness ==
    /\ last.op = "merge"
    /\ last.failed = {"git pull", "git push"}
    /\ last.pre[last.id].status = "active"
    /\ registry[last.id].status = "merged"
    /\ last.exit = 0

\* C20: a cleanup that follows a cleanup of the same registered id finds
\* status cleaned_up, leaves status cleaned_up and exits 0, whichever of
\* its steps (compose teardown, worktree removal, branch deletion) fail.
C20_CleanupTwice ==
    [][ (OnRecord("cleanup") /\ last'.op = "cleanup" /\ last'.id = last.id)
        => /\ registry[last.id].status = "cleaned_up"
           /\ registry'[last.id].status = "cleaned_up"
           /\ last'.exit = 0
      ]_vars

C20_Witness ==
    /\ OnRecord("cleanup")
    /\ last.pre[last.id].status = "cleaned_up"
    /\ {"git worktree remove", "git branch -D"} \subseteq last.failed
    /\ last.exit = 0
    /\ registry[last.id].status = "cleaned_up"

\* the latest invocation got an id that was no key of the registry, the
\* registry file possibly missing
NotFound ==
    ~last.pre_exists \/ last.id \notin DOMAIN last.pre

\* C21: merge, cleanup and check-pr-status given an id that is no key of
\* the registry, the registry file missing included, exit non-zero, run no
\* external command and leave the registry as it was.
C21_UnknownIdRejected ==
    (last.op \in {"merge", "cleanup", "check"} /\ NotFound)
    => /\ last.exit # 0
       /\ last.cmds = <<>>
       /\ registry = last.pre
       /\ registry_exists = last.pre_exists

C21_Witness ==
    /\ last.op = "merge"
    /\ last.pre_exists
    /\ Cardinality(DOMAIN last.pre) = 1
    /\ last.id \notin DOMAIN last.pre
    /\ last.exit = 1
    /\ registry = last.pre

\* C22: over create, merge, cleanup, check and poll invocations that do not
\* overlap, the set of registry keys never loses an element, and the record
\* a cleanup worked on is still there after it.
C22_NoRecordDeleted ==
    [][ /\ (DOMAIN registry) \subseteq (DOMAIN registry')
        /\ (last'.op = "cleanup" /\ last'.exit = 0)
              => last'.id \in DOMAIN registry'
      ]_vars

C22_Witness ==
    /\ OnRecord("cleanup")
    /\ pc = "cleaned"
    /\ last.id \in DOMAIN registry
    /\ DOMAIN registry = DOMAIN last.pre
    /\ registry[last.id].status = "cleaned_up"

\* C23: merge and cleanup change at most the record of the given id, and of
\* it only the status: its id, feature name, path, branch, base_branch and
\* creation time, and every other record, are what they were.
C23_OnlyStatusChanges ==
    (last.op \in {"merge", "cleanup"})
    => /\ DOMAIN registry = DOMAIN last.pre
       /\ registry_exists = last.pre_exists
       /\ \A k \in DOMAIN registry :
             /\ DOMAIN registry[k] = DOMAIN last.pre[k]
             /\ \A f \in DOMAIN registry[k] :
                   registry[k][f] # last.pre[k][f]
                   => (k = last.id /\ f = "status")

C23_Witness ==
    /\ last.op = "merge" /\ last.exit = 0
    /\ Cardinality(DOMAIN registry) = 2
    /\ last.pre[last.id].status = "active"
    /\ registry[last.id].status = "merged"
    /\ registry[last.id].base_branch = "develop"
    /\ \E k \in DOMAIN registry : k # last.id /\ registry[k].status = "cleaned_up"

\* C24: a create of a valid name that succeeds on an absent or empty
\* registry, the current branch being B, leaves a registry file with
\* exactly one entry, keyed worktree-01, of status active, base_branch B
\* and branch feature/<name>.
C24_FirstCreate ==
    (last.op = "create" /\ last.exit = 0 /\ last.pre = EmptyRegistry)
    => /\ registry_exists
       /\ DOMAIN registry = {"worktree-01"}
       /\ registry["worktree-01"].status = "active"
       /\ registry["worktree-01"].base_branch = last.base
       /\ registry["worktree-01"].branch = <<"feature/">> \o last.name
       /\ last.base \in Branches

C24_Witness ==
    /\ last.op = "create" /\ last.exit = 0
    /\ ~last.pre_exists
    /\ last.name = <<"b", "-">>
    /\ last.base = "develop"
    /\ registry["worktree-01"].base_branch = "develop"
    /\ registry["worktree-01"].branch = <<"feature/", "b", "-">>

\* C25: nothing protects the registry from invocations that overlap: an
\* invocation that saves writes back the document it loaded with its own
\* record put in, so whatever another invocation saved since that load is
\* gone from the file.
C25_LastWriterWins ==
    [][ \A p \in Procs :
          (inflight[p].op # "idle" /\ inflight'[p].op = "idle")
          => LET f == inflight[p]
             IN  /\ DOMAIN registry' = (DOMAIN f.doc) \cup {f.id}
                 /\ \A k \in (DOMAIN f.doc) \ {f.id} : registry'[k] = f.doc[k]
      ]_vars

\* a merge or a cleanup that overlapped a create has erased the record the
\* create saved
C25_Witness ==
    /\ last.op \in {"merge", "cleanup"}
    /\ \E k \in DOMAIN last.pre :
          /\ k \notin DOMAIN registry
          /\ last.pre[k].status = "active"
          /\ last.pre[k].feature_name \in dirs

\* two creates that overlap have chosen the same id
C25_SameIdChosen ==
    \E p, q \in Procs :
        /\ p # q
        /\ inflight[p].op = "create" /\ inflight[q].op = "create"
        /\ inflight[p].id = inflight[q].id
        /\ inflight[p].name # inflight[q].name

\* the order merge_worktree runs its git commands in
MergeOrder == <<"git checkout", "git pull", "git merge", "git push">>

\* C26: merge runs checkout, pull, merge, push in that order and saves the
\* registry last: a failed checkout ends it with a non-zero exit, nothing
\* else run and the registry untouched; push is run only after a git merge
\* that succeeded, and the registry changes only after a git merge that
\* succeeded.
C26_MergeOrder ==
    last.op = "merge"
    => /\ Len(last.cmds) <= Len(MergeOrder)
       /\ last.cmds = SubSeq(MergeOrder, 1, Len(last.cmds))
       /\ "git checkout" \in last.failed
             => /\ last.exit # 0
                /\ last.cmds = <<"git checkout">>
                /\ registry = last.pre
       /\ "git push" \in Range(last.cmds)
             => ("git merge" \in Range(last.cmds) \ last.failed)
       /\ registry # last.pre
             => ("git merge" \in Range(last.cmds) \ last.failed)

\* a merge whose checkout of the base branch failed
C26_Witness ==
    /\ last.op = "merge"
    /\ last.failed = {"git checkout"}
    /\ last.exit = 1
    /\ last.id \in DOMAIN registry
    /\ registry[last.id].status = "active"
    /\ registry[last.id].feature_name \in branches

\* the steps of cleanup that follow the removal of the directory
AfterRemoval == {"git branch -D", "git push --delete", "git checkout"}

\* C27: whatever record cleanup is run on and however its steps go, the
\* compose teardown is run only if the worktree directory exists and holds
\* a compose descriptor, and it is run first, before the directory is
\* removed; the recursive delete is run only if `git worktree remove` has
\* failed and the directory is still there; and a recursive delete that
\* fails is followed by the branch deletions, the checkout and the registry
\* update all the same.
C27_CleanupStepOrder ==
    \A id \in DOMAIN registry :
      \A c \in CleanupCases(id, AllCleanupCases) :
        LET r    == CleanupRun(id, c[1], c[2])
            name == registry[id].feature_name
        IN  /\ "docker-compose down" \in Range(r.cmds)
                 => /\ name \in dirs
                    /\ c[1] # "no_compose_file"
                    /\ r.cmds[1] = "docker-compose down"
                    /\ r.cmds[2] = "git worktree remove"
            /\ "rmtree" \in Range(r.cmds)
                 => /\ "git worktree remove" \in r.failed
                    /\ name \in dirs
            /\ "rmtree" \in r.failed
                 => /\ AfterRemoval \subseteq Range(r.cmds)
                    /\ r.exit = 0
                    /\ r.saved
                    /\ r.registry[id].status = "cleaned_up"

\* a cleanup that tore the compose environment down, could not remove the
\* directory either way, and still deleted the branch and updated the record
C27_Witness ==
    /\ last.op = "cleanup"
    /\ last.exit = 0
    /\ last.cmds[1] = "docker-compose down"
    /\ {"git worktree remove", "rmtree"} \subseteq last.failed
    /\ "git branch -D" \in Range(last.cmds) \ last.failed
    /\ last.pre[last.id].status = "active"
    /\ registry[last.id].status = "cleaned_up"
    /\ registry[last.id].feature_name \in dirs
    /\ registry[last.id].feature_name \notin branches

\* C28: poll-pr sleeps and polls again only when the gh query of the check
\* it has just run reported the state OPEN; a failed query, a missing gh,
\* output that cannot be parsed, an unreadable registry, a missing record
\* or pr sub-record never make it go on polling.
C28_SleepsOnlyOnOpen ==
    (pc = "sleep" /\ last.op = "check")
    => last.gh = [kind |-> "state", state |-> "OPEN"]

\* no record of the registry document reg has a pr sub-record
NoPR(reg) == \A id \in DOMAIN reg : ~HasPR(reg[id])

\* C29: create, merge and cleanup never write a pr sub-record; so on a
\* registry that only they have written, check-pr-status exits 2 for any id
\* without running the gh query, and a poll-pr run never sleeps, never runs
\* cleanup, polls once and ends with a failure.
C29_NoPrWithoutWorkflow ==
    /\ (last.op \in {"create", "merge", "cleanup"} /\ NoPR(last.pre))
          => NoPR(registry)
    /\ (last.op = "check" /\ NoPR(last.pre))
          => /\ last.exit = 2
             /\ last.cmds = <<>>
    /\ (pc # "idle" /\ NoPR(registry))
          => /\ sleeps = <<>>
             /\ cleanup_calls = 0
             /\ pc \in {"poll", "done", "interrupted"}
             /\ poll_count <= 1
             /\ pc = "poll" => poll_count = 0
             /\ pc = "done" => (poll_count = 1 /\ results = <<2>>
                                  /\ poll_exit = 1)
             /\ pc = "interrupted" => poll_exit = 1

\* a poll-pr run on a worktree that was created and merged and never got a
\* pull request recorded has ended after its first poll
C29_Witness ==
    /\ pc = "done"
    /\ poll_exit = 1
    /\ poll_count = 1
    /\ last.op = "check"
    /\ last.exit = 2
    /\ last.id = poll_id
    /\ poll_id \in DOMAIN registry
    /\ registry[poll_id].status = "merged"
    /\ NoPR(registry)

\* C30: when a poll-pr run that no other invocation overlapped has exited
\* 0, the record of the polled worktree has the status cleaned_up.
C30_ExitZeroMeansCleanedUp ==
    (pc = "done" /\ poll_exit = 0)
    => /\ poll_id \in DOMAIN registry
       /\ registry[poll_id].status = "cleaned_up"

\* a run that found the PR open, then merged, cleaned an active worktree up
\* and exited 0
C30_Witness ==
    /\ pc = "done"
    /\ poll_exit = 0
    /\ results = <<1, 0>>
    /\ last.op = "cleanup"
    /\ last.id = poll_id
    /\ last.pre[poll_id].status = "active"
    /\ registry[poll_id].status = "cleaned_up"

\* C31: check-pr-status never writes the registry, whatever it finds, and a
\* poll-pr run changes the registry only by the cleanup it invokes: a step
\* that changes the registry file is never a check or the start of a run,
\* and inside a run it is the cleanup of the polled worktree.
C31_CheckAndPollFrame ==
    [][ (registry' # registry \/ registry_exists' # registry_exists
            \/ registry_corrupt' # registry_corrupt)
        => /\ last'.op \notin {"check", "poll-pr"}
           /\ pc # "idle" => /\ pc = "cleanup"
                             /\ last'.op = "cleanup"
                             /\ last'.id = poll_id
      ]_vars

\* a run whose checks found the PR open and then merged, and whose cleanup
\* has changed the registry
C31_Witness ==
    /\ pc = "cleaned"
    /\ results = <<1, 0>>
    /\ last.op = "cleanup"
    /\ last.id = poll_id
    /\ registry # last.pre
    /\ HasPR(registry[poll_id])

\* C32: after any sequence of create, merge and cleanup invocations run one
\* after another, every record of the registry has an id field equal to the
\* key it is stored under.
C32_IdFieldIsKey ==
    \A k \in DOMAIN registry : registry[k].id = k

\* two records, the first cleaned up and the second merged just now, each
\* under its own id
C32_Witness ==
    /\ last.op = "merge" /\ last.exit = 0
    /\ last.id = "worktree-02"
    /\ DOMAIN registry = {"worktree-01", "worktree-02"}
    /\ registry["worktree-01"].status = "cleaned_up"
    /\ registry["worktree-02"].status = "merged"
    /\ registry["worktree-01"].id = "worktree-01"
    /\ registry["worktree-02"].id = "worktree-02"

\* the components whose config was downloaded and parsed
Contributing == { i \in 1..3 : install.frags[i].selected /\ install.frags[i].ok }
ComponentTag == <<"backend", "frontend", "infrastructure">>
\* the keys the contributing configs hold
UnionKeys == UNION { install.frags[i].keys : i \in Contributing }
\* the last component, in the order of the code, whose config holds k
LatestWith(k) ==
    CHOOSE i \in Contributing :
        /\ k \in install.frags[i].keys
        /\ \A j \in Contributing : k \in install.frags[j].keys => j <= i

\* C33: the installer overlays the configs of backend, frontend and
\* infrastructure, in that order, on a base whose agents are emptied first:
\* the agents and the settings of the result are the union of the maps of
\* the selected configs, a key of several configs has the value of the last
\* of them, a config that cannot be downloaded or parsed adds nothing, and
\* the config file is written whatever failed.
C33_OverlayOfFragments ==
    install.pc # "start"
    => /\ install.pc = "written"
       /\ DOMAIN install.config.agents = UnionKeys
       /\ DOMAIN install.config.settings = UnionKeys
       /\ \A k \in UnionKeys :
             /\ install.config.agents[k].from = ComponentTag[LatestWith(k)]
             /\ install.config.settings[k].from = ComponentTag[LatestWith(k)]

\* what the code does give: unless the project name breaks the JSON text,
\* the file is written, its agents are the overlay of the contributing
\* configs, and its settings are that overlay on the settings of the base
C33_WrittenConfig ==
    /\ install.pc = "raised"
          <=> (install.pc # "start"
               /\ SubstitutionRaises(MergedConfig(install.base, install.frags),
                                     install.name))
    /\ install.pc = "written"
          => /\ DOMAIN install.config.agents = UnionKeys
             /\ DOMAIN install.config.settings =
                   UnionKeys \cup (IF install.base.ok
                                   THEN install.base.settings ELSE {})
             /\ \A k \in UnionKeys :
                   /\ install.config.agents[k].from = ComponentTag[LatestWith(k)]
                   /\ install.config.settings[k].from = ComponentTag[LatestWith(k)]
             /\ \A k \in (DOMAIN install.config.settings) \ UnionKeys :
                   install.config.settings[k].from = "base"

====
